---- MODULE Spec2Model ----
(***************************************************************************)
(* whisper-line-protocol (src/main.go, the retention-bucketed variant that *)
(* starts at line 300): matching of whisper file names against the rules   *)
(* of the config file, resolution of measurement/field/tags, and the       *)
(* export of every matched series into one shared buffer per retention.    *)
(*                                                                         *)
(* Strings are sequences of one-character strings, so that the regular     *)
(* expressions, the splitting and the number formatting of the program are *)
(* computed character by character.                                        *)
(***************************************************************************)
EXTENDS Integers, Sequences, FiniteSets, TLC

\* ------------------------------------------------------------------ bounds
MaxSegs == 3        \* '.'-separated segments of a generated rule pattern
MaxPad == 2         \* blanks on each side of a wildcard name, 0..MaxPad
MaxRules == 2       \* rules of a generated multi-rule config
MaxSeries == 2      \* whisper files found by listWspFiles
MaxArchives == 2    \* archives listed by the whisper headers of one run
MaxPoints == 2      \* points dumped from the archives of one run
MaxNames == 2       \* names in the generated -retentions lists

\* ------------------------------------------------------- program constants
ValueDen == 2       \* point values are multiples of 1/ValueDen

\* ----------------------------------------------------------------- strings
Max(S) == CHOOSE m \in S : \A n \in S : n <= m
Min(S) == CHOOSE m \in S : \A n \in S : m <= n

\* s[i..j], empty when the range is empty or leaves the string
Sub(s, i, j) == IF i > j THEN << >> ELSE SubSeq(s, i, j)

\* the string t occurs in s starting at position i
HasAt(s, i, t) ==
  /\ i >= 1
  /\ i + Len(t) - 1 <= Len(s)
  /\ \A k \in 1..Len(t) : s[i + k - 1] = t[k]

\* the class \s of Go's regexp: [\t\n\f\r ]
IsSpace(c) == c \in {" ", "\t", "\n", "\f", "\r"}

\* number of consecutive characters from position i on, in / not in \s
RECURSIVE SpaceRun(_, _)
SpaceRun(s, i) ==
  IF i <= Len(s) /\ IsSpace(s[i]) THEN 1 + SpaceRun(s, i + 1) ELSE 0

RECURSIVE NonSpaceRun(_, _)
NonSpaceRun(s, i) ==
  IF i <= Len(s) /\ ~IsSpace(s[i]) THEN 1 + NonSpaceRun(s, i + 1) ELSE 0

\* strings.Replace(s, old, new, -1) for a one-character old
RECURSIVE Replace(_, _, _)
Replace(s, old, new) ==
  IF s = << >> THEN << >>
  ELSE (IF Head(s) = old THEN new ELSE <<Head(s)>>) \o Replace(Tail(s), old, new)

\* strings.TrimSuffix
TrimSuffix(s, suffix) ==
  IF Len(s) >= Len(suffix) /\ HasAt(s, Len(s) - Len(suffix) + 1, suffix)
  THEN Sub(s, 1, Len(s) - Len(suffix))
  ELSE s

\* strings.Split(s, sep) for a one-character sep: always at least one part
RECURSIVE Split(_, _)
Split(s, sep) ==
  IF \A k \in 1..Len(s) : s[k] # sep THEN <<s>>
  ELSE LET k == Min({j \in 1..Len(s) : s[j] = sep})
       IN  <<Sub(s, 1, k - 1)>> \o Split(Sub(s, k + 1, Len(s)), sep)

\* decimal digits of a natural number: fmt.Sprintf("%d"), strconv.FormatInt
Digit(d) == <<"0", "1", "2", "3", "4", "5", "6", "7", "8", "9">>[d + 1]

RECURSIVE FormatNat(_)
FormatNat(n) ==
  IF n < 10 THEN <<Digit(n)>> ELSE FormatNat(n \div 10) \o <<Digit(n % 10)>>

FormatInt(n) == IF n < 0 THEN <<"-">> \o FormatNat(-n) ELSE FormatNat(n)

\* ------------------------------------------------- the regular expressions
\* reWild = {{\s*(\S+)\s*}} tried at position i of s (src/main.go:674).
\* Go's regexp prefers the leftmost match and, for it, the greedy choices in
\* order: the first \s* takes the whole run of blanks (a shorter choice
\* leaves a blank for \S+); \S+ first takes the whole run of non-blanks,
\* after which \s* takes the following blanks and }} must follow; failing
\* that, \S+ gives characters back until the next two are }}.
\* The result is [ok, from, to, end]: the name is s[from..to] and the match
\* is s[i..end-1].
WildAt(s, i) ==
  IF ~HasAt(s, i, <<"{", "{">>) THEN [ok |-> FALSE, from |-> 0, to |-> 0, end |-> 0]
  ELSE LET a    == i + 2 + SpaceRun(s, i + 2)
           L    == NonSpaceRun(s, a)
           full == a + L + SpaceRun(s, a + L)
           back == {j \in 1..L : HasAt(s, a + j, <<"}", "}">>)}
       IN  IF L >= 1 /\ HasAt(s, full, <<"}", "}">>)
           THEN [ok |-> TRUE, from |-> a, to |-> a + L - 1, end |-> full + 2]
           ELSE IF back # {}
           THEN [ok |-> TRUE, from |-> a, to |-> a + Max(back) - 1,
                 end |-> a + Max(back) + 2]
           ELSE [ok |-> FALSE, from |-> 0, to |-> 0, end |-> 0]

\* reWild.FindAllStringSubmatch(s, -1) from position i on: the successive
\* non-overlapping matches, each as [token, name] (m[0] and m[1])
RECURSIVE FindAllWild(_, _)
FindAllWild(s, i) ==
  IF i > Len(s) THEN << >>
  ELSE LET m == WildAt(s, i)
       IN  IF m.ok
           THEN <<[token |-> Sub(s, i, m.end - 1), name |-> Sub(s, m.from, m.to)]>>
                \o FindAllWild(s, m.end)
           ELSE FindAllWild(s, i + 1)

\* reWild.ReplaceAllLiteralString(s, repl) from position i on
RECURSIVE ReplaceAllWild(_, _, _)
ReplaceAllWild(s, i, repl) ==
  IF i > Len(s) THEN << >>
  ELSE LET m == WildAt(s, i)
       IN  IF m.ok THEN repl \o ReplaceAllWild(s, m.end, repl)
           ELSE <<s[i]>> \o ReplaceAllWild(s, i + 1, repl)

\* the group every wildcard is replaced by: ([^.]+)
WildGroup == <<"(", "[", "^", ".", "]", "+", ")">>

\* regexp.MustCompile(pattern) for the patterns main.go:677-678 produce from
\* rule patterns made of letters, digits, '_', '.', blanks, braces and
\* balanced parentheses that are not nested: \. is a literal dot, ([^.]+) a
\* capturing group of one or more characters other than '.', any other
\* parenthesis opens or closes a capturing group, every other character
\* stands for itself (a brace that opens no repetition count is a literal
\* in Go's syntax).
RECURSIVE Compile(_, _)
Compile(p, i) ==
  IF i > Len(p) THEN << >>
  ELSE IF p[i] = "\\" /\ i < Len(p)
  THEN <<[wild |-> FALSE, c |-> p[i + 1], paren |-> ""]>> \o Compile(p, i + 2)
  ELSE IF HasAt(p, i, WildGroup)
  THEN <<[wild |-> TRUE, c |-> "", paren |-> ""]>> \o Compile(p, i + Len(WildGroup))
  ELSE IF p[i] \in {"(", ")"}
  THEN <<[wild |-> FALSE, c |-> "", paren |-> p[i]]>> \o Compile(p, i + 1)
  ELSE <<[wild |-> FALSE, c |-> p[i], paren |-> ""]>> \o Compile(p, i + 1)

\* number of consecutive characters other than '.' from position i on
RECURSIVE NonDotRun(_, _)
NonDotRun(s, i) ==
  IF i <= Len(s) /\ s[i] # "." THEN 1 + NonDotRun(s, i + 1) ELSE 0

\* the compiled expression re, from its k-th item on, matched against s at
\* position i: the preferred match as [ok, end, groups, closes]. A wildcard
\* group first takes the longest run of non-dots and gives characters back
\* one at a time until the rest of the expression matches. The groups are
\* in the order of their opening parentheses; closes are the positions at
\* which the closing parentheses still without their opening one were met.
RECURSIVE MatchHere(_, _, _, _)
RECURSIVE MatchGroup(_, _, _, _, _)
MatchHere(re, k, s, i) ==
  IF k > Len(re) THEN [ok |-> TRUE, end |-> i, groups |-> << >>, closes |-> << >>]
  ELSE IF re[k].wild THEN MatchGroup(re, k, s, i, NonDotRun(s, i))
  ELSE IF re[k].paren = "("
  THEN LET rest == MatchHere(re, k + 1, s, i)
       IN  IF rest.ok
           THEN [ok |-> TRUE, end |-> rest.end,
                 groups |-> <<Sub(s, i, rest.closes[1] - 1)>> \o rest.groups,
                 closes |-> Tail(rest.closes)]
           ELSE rest
  ELSE IF re[k].paren = ")"
  THEN LET rest == MatchHere(re, k + 1, s, i)
       IN  IF rest.ok THEN [rest EXCEPT !.closes = <<i>> \o @] ELSE rest
  ELSE IF i <= Len(s) /\ s[i] = re[k].c THEN MatchHere(re, k + 1, s, i + 1)
  ELSE [ok |-> FALSE, end |-> 0, groups |-> << >>, closes |-> << >>]

MatchGroup(re, k, s, i, n) ==
  IF n < 1 THEN [ok |-> FALSE, end |-> 0, groups |-> << >>, closes |-> << >>]
  ELSE LET rest == MatchHere(re, k + 1, s, i + n)
       IN  IF rest.ok
           THEN [ok |-> TRUE, end |-> rest.end,
                 groups |-> <<Sub(s, i, i + n - 1)>> \o rest.groups,
                 closes |-> rest.closes]
           ELSE MatchGroup(re, k, s, i, n - 1)

\* re.FindAllStringSubmatch(s, -1): nil (here << >>) when nothing matches,
\* else the first element is the leftmost match, whole match then groups.
\* Only matchedArr[0] is read by the program, so only it is computed.
RECURSIVE FindFirstSubmatch(_, _, _)
FindFirstSubmatch(re, s, i) ==
  IF i > Len(s) + 1 THEN << >>
  ELSE LET m == MatchHere(re, 1, s, i)
       IN  IF m.ok THEN <<<<Sub(s, i, m.end - 1)>> \o m.groups>>
           ELSE FindFirstSubmatch(re, s, i + 1)

\* regexp.MustCompile("{{\\s" + name + "\\s}}") (src/main.go:726): two
\* braces, exactly one blank, the name read as a regular expression (its
\* '.' matches any character but a newline, its other characters stand for
\* themselves), exactly one blank, two braces. Every item matches exactly
\* one character.
SubstAt(s, i, name) ==
  /\ i + Len(name) + 5 <= Len(s)
  /\ HasAt(s, i, <<"{", "{">>)
  /\ IsSpace(s[i + 2])
  /\ \A k \in 1..Len(name) :
        IF name[k] = "." THEN s[i + 2 + k] # "\n" ELSE s[i + 2 + k] = name[k]
  /\ IsSpace(s[i + 3 + Len(name)])
  /\ HasAt(s, i + 4 + Len(name), <<"}", "}">>)

\* re.ReplaceAllLiteralString(s, repl) for that expression, from position i
RECURSIVE ReplaceAllSubst(_, _, _, _)
ReplaceAllSubst(s, i, name, repl) ==
  IF i > Len(s) THEN << >>
  ELSE IF SubstAt(s, i, name)
  THEN repl \o ReplaceAllSubst(s, i + Len(name) + 6, name, repl)
  ELSE <<s[i]>> \o ReplaceAllSubst(s, i + 1, name, repl)

\* ------------------------------------------------------------ assignConfig
\* src/main.go:660-664: the whisper file name turned into a dotted path
Normalize(wspFile) ==
  Replace(Replace(Replace(TrimSuffix(wspFile, <<".", "w", "s", "p">>),
                          "/", <<".">>), ",", <<"_">>), " ", <<"_">>)

\* src/main.go:677-681: dots escaped, every wildcard replaced by ([^.]+),
\* the result compiled
CompilePattern(Pattern) ==
  Compile(ReplaceAllWild(Replace(Pattern, ".", <<"\\", ".">>), 1, WildGroup), 1)

\* the loop over the rules without its break: the last matching rule stays
RECURSIVE MatchRulesNoBreak(_, _, _)
MatchRulesNoBreak(migrationConfig, k, wspMeasurement) ==
  IF k > Len(migrationConfig)
  THEN [filenameMatched |-> FALSE, tagConfig |-> Len(migrationConfig),
        matched |-> << >>, wildcards |-> << >>]
  ELSE LET matchedArr ==
             FindFirstSubmatch(CompilePattern(migrationConfig[k].Pattern),
                               wspMeasurement, 1)
           rest == MatchRulesNoBreak(migrationConfig, k + 1, wspMeasurement)
       IN  IF rest.filenameMatched \/ matchedArr = << >> THEN rest
           ELSE [filenameMatched |-> TRUE, tagConfig |-> k,
                 matched |-> matchedArr[1],
                 wildcards |-> FindAllWild(migrationConfig[k].Pattern, 1)]

\* src/main.go:673-692: the rules tried in order from the k-th on; the loop
\* stops at the first rule whose expression matches somewhere in the path.
\* tagConfig is the index of the rule the loop variable holds at the end.
RECURSIVE MatchRules(_, _, _)
MatchRules(migrationConfig, k, wspMeasurement) ==
  IF k > Len(migrationConfig)
  THEN [filenameMatched |-> FALSE, tagConfig |-> Len(migrationConfig),
        matched |-> << >>, wildcards |-> << >>]
  ELSE LET matchedArr ==
             FindFirstSubmatch(CompilePattern(migrationConfig[k].Pattern),
                               wspMeasurement, 1)
       IN  IF matchedArr # << >>
           THEN [filenameMatched |-> TRUE, tagConfig |-> k,
                 matched |-> matchedArr[1],
                 wildcards |-> FindAllWild(migrationConfig[k].Pattern, 1)]
           ELSE MatchRules(migrationConfig, k + 1, wspMeasurement)

\* src/main.go:704-709: ",key=value" for every tag of the rule, from the
\* j-th on
RECURSIVE TagString(_, _)
TagString(Tags, j) ==
  IF j > Len(Tags) THEN << >>
  ELSE <<",">> \o Tags[j].Tagkey \o <<"=">> \o Tags[j].Tagvalue
       \o TagString(Tags, j + 1)

\* src/main.go:725-731: the substitution loop at index i (Go's i, so that
\* matched[i] is matched[i + 1] here and wildcards[i - 1] is wildcards[i]),
\* running down to 1. An index outside wildcards is a runtime panic.
RECURSIVE Substitute(_, _, _, _)
Substitute(data, matched, wildcards, i) ==
  IF i < 1 THEN data
  ELSE IF i > Len(wildcards) THEN [data EXCEPT !.panic = TRUE]
  ELSE Substitute(
         [data EXCEPT
            !.measurement = ReplaceAllSubst(@, 1, wildcards[i].name, matched[i + 1]),
            !.field       = ReplaceAllSubst(@, 1, wildcards[i].name, matched[i + 1]),
            !.tags        = ReplaceAllSubst(@, 1, wildcards[i].name, matched[i + 1])],
         matched, wildcards, i - 1)

\* the last element of strings.Split(s, ".")
LastPart(s) == LET parts == Split(s, ".") IN parts[Len(parts)]

\* src/main.go:658-734: data is the MigrationData of one whisper file
assignConfig(data, migrationConfig) ==
  LET wspMeasurement == Normalize(data.wspFile)
      m == MatchRules(migrationConfig, 1, wspMeasurement)
      tagConfig == migrationConfig[m.tagConfig]
      filled == [data EXCEPT
                   !.matched = TRUE,
                   !.measurement = IF tagConfig.Measurement = << >>
                                   THEN LastPart(wspMeasurement)
                                   ELSE tagConfig.Measurement,
                   !.field = IF tagConfig.Field = << >>
                             THEN <<"v", "a", "l", "u", "e">>
                             ELSE tagConfig.Field,
                   !.tags = data.tags \o TagString(tagConfig.Tags, 1)]
  IN  IF ~m.filenameMatched THEN data
      ELSE Substitute(filled, m.matched, m.wildcards, Len(m.matched) - 1)

\* the MigrationData ListMigrations starts from (src/main.go:525-526)
NewMigrationData(wspFile) ==
  [wspFile |-> wspFile, measurement |-> << >>, tags |-> << >>, field |-> << >>,
   matched |-> FALSE, exported |-> FALSE, panic |-> FALSE]

\* ------------------------------------------------------------------- state
VARIABLES
  pc,            \* position of main: "main", "list", "confirm", "export",
                 \* "archive", "dump", "point", "close", "done", "exit", "panic"
  retentionsStr, \* flag -retentions
  exportZeros,   \* flag -zeros
  gzipped,       \* flag -gz
  from,          \* flag -from
  until,         \* flag -until
  config,        \* the rules of the config file (LoadConfigFile)
  fileList,      \* the whisper files found (listWspFiles)
  retentions,    \* global retentions: the names not yet given to a buffer
  buffers,       \* global buffers: SecondsPerPoint -> MigrationBuffer
  created,       \* the paths given to os.Create, in order
  migrations,    \* the matched MigrationData, in order
  k,             \* main's loop index over migrations (from 1)
  archive,       \* SecondsPerPoint of the archive export is at (0: none)
  point,         \* the point export's inner loop is at (NoPoint: none)
  err,           \* export's err of WriteString: TRUE when the write failed
  visited,       \* the keys the closing loop of main has been through
  owed,          \* history: per key, the lines of the dumped points that
                 \* pass the filters, in the order they were dumped
  nArchives,     \* history: archives read from the whisper headers so far
  nPoints,       \* history: points read from the dumped archives so far
  failed,        \* history: the indices of the migrations whose whisper
                 \* file could not be opened
  undumped       \* history: the archives DumpArchive failed for, each as
                 \* its number among the archives read in the run

vars == <<pc, retentionsStr, exportZeros, gzipped, from, until, config,
          fileList, retentions, buffers, created, migrations, k, archive,
          point, err, visited, owed, nArchives, nPoints, failed, undumped>>

flags == <<retentionsStr, exportZeros, gzipped, from, until, config, fileList>>
cursor == <<k, archive, point>>
history == <<owed, nArchives, nPoints, failed, undumped>>

\* ------------------------------------------------------------------ inputs
Blanks(n) == [x \in 1..n |-> " "]

\* a wildcard written with pad blanks on each side of its name
Tok(name, pad) == <<"{", "{">> \o Blanks(pad) \o name \o Blanks(pad) \o <<"}", "}">>

RECURSIVE JoinWith(_, _)
JoinWith(parts, sep) ==
  IF Len(parts) = 0 THEN << >>
  ELSE IF Len(parts) = 1 THEN parts[1]
  ELSE parts[1] \o <<sep>> \o JoinWith(Tail(parts), sep)

SeqsUpTo(S, lo, hi) == UNION {[1..n -> S] : n \in lo..hi}

Segments(pad) == {<<"a">>, <<"b">>, Tok(<<"x">>, pad), Tok(<<"y">>, pad)}

ScenarioPattern(pad) ==
  <<"a", ".">> \o Tok(<<"x">>, pad) \o <<".", "b", ".">> \o Tok(<<"y">>, pad)

Patterns(pad) ==
  {JoinWith(segs, ".") : segs \in SeqsUpTo(Segments(pad), 1, MaxSegs)}
  \cup {ScenarioPattern(pad)}

\* measurement, field and tags of a rule, wildcards written with pad blanks
Templates(pad) ==
  { [Measurement |-> << >>, Field |-> << >>, Tags |-> << >>],
    [Measurement |-> Tok(<<"x">>, pad) \o <<"_">> \o Tok(<<"y">>, pad),
     Field |-> << >>, Tags |-> << >>],
    [Measurement |-> <<"m">>, Field |-> Tok(<<"y">>, pad),
     Tags |-> <<[Tagkey |-> <<"h">>, Tagvalue |-> Tok(<<"x">>, pad)]>>] }

Rule(Pattern, t) ==
  [Pattern |-> Pattern, Measurement |-> t.Measurement, Tags |-> t.Tags,
   Field |-> t.Field]

Rules ==
  {Rule(p, t) : p \in UNION {Patterns(pad) : pad \in 0..MaxPad},
                t \in UNION {Templates(pad) : pad \in 0..MaxPad}}

\* the rules the multi-rule configs are made of
ListRules ==
  { [Pattern |-> <<"a", ".">> \o Tok(<<"x">>, 1),
     Measurement |-> <<"m">>, Field |-> Tok(<<"x">>, 1), Tags |-> << >>],
    [Pattern |-> Tok(<<"x">>, 1) \o <<".">> \o Tok(<<"y">>, 1),
     Measurement |-> Tok(<<"y">>, 1), Field |-> Tok(<<"x">>, 1), Tags |-> << >>],
    [Pattern |-> <<"b">>,
     Measurement |-> <<"n">>, Field |-> << >>, Tags |-> << >>],
    [Pattern |-> <<"1", "0", ".", "b">>,
     Measurement |-> << >>, Field |-> <<"f">>, Tags |-> << >>] }

WspFiles ==
  { <<"a", "/", "1", "0", "/", "b", "/", "2", "0", ".", "w", "s", "p">>,
    <<"a", "/", "1", "/", "1", "0", ".", "w", "s", "p">>,
    <<"b", "/", "a", ".", "w", "s", "p">>,
    <<"a", ",", "b", "/", "x", " ", "y", ".", "w", "s", "p">>,
    <<"c", ".", "w", "s", "p">>,
    <<"s", "t", "a", "t", "s", "/", "s", "e", "r", "v", "e", "r", "1", "/",
      "l", "o", "a", "d", ".", "w", "s", "p">>,
    <<"a", "/", "{", "{", "\t", "x", "\t", "}", "}", ".", "w", "s", "p">> }

\* a rule without measurement, field and tags
StatsRule ==
  [Pattern |-> <<"s", "t", "a", "t", "s", ".">> \o Tok(<<"h", "o", "s", "t">>, 0)
               \o <<".", "l", "o", "a", "d">>,
   Measurement |-> << >>, Field |-> << >>, Tags |-> << >>]

\* rules whose pattern holds parentheses
ParenRules ==
  { [Pattern |-> <<"(", "b", ")">>,
     Measurement |-> <<"m">>, Field |-> << >>, Tags |-> << >>],
    [Pattern |-> <<"(", "a", ")", ".">> \o Tok(<<"x">>, 1),
     Measurement |-> Tok(<<"x">>, 1), Field |-> << >>, Tags |-> << >>],
    [Pattern |-> <<"a", ".">> \o Tok(<<"x">>, 1) \o <<".", "(", "b", ")">>,
     Measurement |-> Tok(<<"x">>, 1), Field |-> << >>, Tags |-> << >>] }

\* the configs and whisper files of the export runs: one rule per
\* measurement, and a file that matches neither
RunConfig ==
  << [Pattern |-> <<"a", ".">> \o Tok(<<"x">>, 1),
      Measurement |-> <<"m">>, Field |-> << >>,
      Tags |-> <<[Tagkey |-> <<"h">>, Tagvalue |-> Tok(<<"x">>, 1)]>>],
     [Pattern |-> <<"b">>,
      Measurement |-> << >>, Field |-> <<"f">>, Tags |-> << >>] >>

RunFiles ==
  { <<"a", "/", "1", ".", "w", "s", "p">>,
    <<"b", ".", "w", "s", "p">>,
    <<"c", ".", "w", "s", "p">> }

\* the order filepath.Walk finds them in: lexical, every file once
WalkOrder ==
  << <<"a", "/", "1", ".", "w", "s", "p">>,
     <<"b", ".", "w", "s", "p">>,
     <<"c", ".", "w", "s", "p">> >>

\* what listWspFiles returns when the files of S are there
Walked(S) == SelectSeq(WalkOrder, LAMBDA f : f \in S)

FileLists ==
  {Walked(S) : S \in {T \in SUBSET RunFiles : Cardinality(T) <= MaxSeries}}

\* the values of -retentions: up to MaxNames names joined by commas
Names == {<<"a">>, <<"6", "0">>}
RetentionStrs == {JoinWith(names, ",") : names \in SeqsUpTo(Names, 0, MaxNames)}

Rates == {1, 60}        \* SecondsPerPoint of the archives
FromSet == {2}         \* flag -from
UntilSet == {3}        \* flag -until

\* whisper.Point: Value is the numerator of a fraction over ValueDen
PointSet ==
  { [Timestamp |-> 1, Value |-> 3],
    [Timestamp |-> 2, Value |-> 3],
    [Timestamp |-> 3, Value |-> 0],
    [Timestamp |-> 3, Value |-> -1],
    [Timestamp |-> 4, Value |-> 3] }

NoPoint == [Timestamp |-> 0, Value |-> 0]

Database == <<"g", "r", "a", "p", "h", "i", "t", "e">>   \* flag -database
ExportPath == <<"/", "o", "u", "t">>                      \* flag -export-path

\* ----------------------------------------------------------------- buffers
\* src/main.go:455-462: [name, retentions]: the name given to rate, and
\* the names left
RetentionPolicyName(rate, rets) ==
  IF Len(rets) > 0 THEN [name |-> rets[1], retentions |-> Tail(rets)]
  ELSE [name |-> FormatInt(rate), retentions |-> rets]

\* src/main.go:465-469
LineProtocolContext(database, retention) ==
  <<"# DML\n# CONTEXT-DATABASE: ">> \o database
  \o <<"\n# CONTEXT-RETENTION-POLICY: ">> \o retention \o <<"\n\n">>

\* the path of a buffer made from the retention name alone
BufferPathByName(rate, retention, gz) ==
  ExportPath \o <<"/">> \o retention
  \o <<".", "t", "x", "t">> \o (IF gz THEN <<".", "g", "z">> ELSE << >>)

\* src/main.go:426-429
BufferPath(rate, retention, gz) ==
  ExportPath \o <<"/">> \o FormatInt(rate) \o <<"-">> \o retention
  \o <<".", "t", "x", "t">> \o (IF gz THEN <<".", "g", "z">> ELSE << >>)

\* RetrieveMigrationBuffer writing the context on every call
RetrieveMigrationBufferRewrites(bufs, rets, files, rate, gz) ==
  IF rate \in DOMAIN bufs
  THEN [buffers |-> [bufs EXCEPT ![rate].out =
                       Append(@, LineProtocolContext(Database, FormatInt(rate)))],
        retentions |-> rets, created |-> files]
  ELSE LET r    == RetentionPolicyName(rate, rets)
           path == BufferPath(rate, r.name, gz)
           buffer == [File |-> path, Gz |-> gz,
                      out |-> <<LineProtocolContext(Database, r.name)>>,
                      flushed |-> 0, closed |-> 0]
       IN  [buffers |-> [x \in DOMAIN bufs \cup {rate} |->
                           IF x = rate THEN buffer ELSE bufs[x]],
            retentions |-> r.retentions,
            created |-> Append(files, path)]

\* RetrieveMigrationBuffer asking for the retention name before the lookup
RetrieveMigrationBufferTakesName(bufs, rets, files, rate, gz) ==
  LET r == RetentionPolicyName(rate, rets)
  IN  IF rate \in DOMAIN bufs
      THEN [buffers |-> bufs, retentions |-> r.retentions, created |-> files]
      ELSE LET path == BufferPath(rate, r.name, gz)
               buffer == [File |-> path, Gz |-> gz,
                          out |-> <<LineProtocolContext(Database, r.name)>>,
                          flushed |-> 0, closed |-> 0]
           IN  [buffers |-> [x \in DOMAIN bufs \cup {rate} |->
                               IF x = rate THEN buffer ELSE bufs[x]],
                retentions |-> r.retentions,
                created |-> Append(files, path)]

\* src/main.go:419-452 when os.Create succeeds: the globals after the call.
\* A MigrationBuffer is [File, Gz, out, flushed, closed]: the path of its
\* file, whether it writes through a gzip.Writer, the strings written to
\* its bufio.Writer, and how often it was flushed and closed.
RetrieveMigrationBuffer(bufs, rets, files, rate, gz) ==
  IF rate \in DOMAIN bufs
  THEN [buffers |-> bufs, retentions |-> rets, created |-> files]
  ELSE LET r    == RetentionPolicyName(rate, rets)
           path == BufferPath(rate, r.name, gz)
           buffer == [File |-> path, Gz |-> gz,
                      out |-> <<LineProtocolContext(Database, r.name)>>,
                      flushed |-> 0, closed |-> 0]
       IN  [buffers |-> [x \in DOMAIN bufs \cup {rate} |->
                           IF x = rate THEN buffer ELSE bufs[x]],
            retentions |-> r.retentions,
            created |-> Append(files, path)]

\* ------------------------------------------------------------ lineprotocol
\* math.Ceil of num/ValueDen
Ceil(num) == -((-num) \div ValueDen)

\* strconv.FormatFloat(math.Ceil(num/ValueDen), 'f', -1, 64): the ceiling
\* of a fraction in (-1, 0) is the negative zero, printed "-0"
FormatCeil(num) ==
  IF num < 0 /\ Ceil(num) = 0 THEN <<"-", "0">> ELSE FormatInt(Ceil(num))

\* lineprotocol rounding the product down instead of up
lineprotocolFloor(migrationData, p, factor) ==
  migrationData.measurement \o migrationData.tags \o <<" ">>
  \o migrationData.field \o <<"=">>
  \o FormatInt((p.Value * factor) \div ValueDen)
  \o <<" ">> \o FormatInt(p.Timestamp)

\* src/main.go:643-652
lineprotocol(migrationData, p, factor) ==
  migrationData.measurement \o migrationData.tags \o <<" ">>
  \o migrationData.field \o <<"=">> \o FormatCeil(p.Value * factor)
  \o <<" ">> \o FormatInt(p.Timestamp)

\* the skip test with the upper bound excluded
SkippedAtUntil(p, zeros, lo, hi) ==
  \/ ~zeros /\ p.Value = 0
  \/ p.Timestamp < lo \/ p.Timestamp >= hi

\* src/main.go:495-500: the point is skipped
Skipped(p, zeros, lo, hi) ==
  \/ ~zeros /\ p.Value = 0
  \/ p.Timestamp < lo \/ p.Timestamp > hi

\* ----------------------------------------------------------------- history
\* a sample qualifies when it passes the zero and the time-range filter
Qualifies(p) ==
  /\ p.Value # 0 \/ exportZeros
  /\ from <= p.Timestamp /\ p.Timestamp <= until

\* the lines owed to the buffer of rate for a point of series m
OwedLines(m, p, rate) ==
  IF Qualifies(p) THEN <<lineprotocol(m, p, rate) \o <<"\n">>>> ELSE << >>

\* ----------------------------------------------------------------- actions
\* The whisper files are read as export reaches them: the archives of an
\* open file and the points of a dumped archive are drawn one at a time,
\* at most MaxArchives archives and MaxPoints points in a run.
Init ==
  /\ pc = "main"
  /\ retentionsStr \in RetentionStrs
  /\ exportZeros \in BOOLEAN
  /\ gzipped \in BOOLEAN
  /\ from \in FromSet
  /\ until \in UntilSet
  /\ config = RunConfig
  /\ fileList \in FileLists
  /\ retentions = << >>
  /\ buffers = << >>
  /\ created = << >>
  /\ migrations = << >>
  /\ k = 0 /\ archive = 0 /\ point = NoPoint
  /\ err = FALSE
  /\ visited = {}
  /\ owed = [r \in Rates |-> << >>]
  /\ nArchives = 0 /\ nPoints = 0
  /\ failed = {}
  /\ undumped = {}

\* src/main.go:368-369
ParseFlags ==
  /\ pc = "main"
  /\ retentions' = Split(retentionsStr, ",")
  /\ pc' = "list"
  /\ UNCHANGED <<flags, err, buffers, created, migrations, cursor, visited, history>>

\* the loop of ListMigrations appending every file, matched or not
RECURSIVE MatchedDataKeepsAll(_, _, _)
MatchedDataKeepsAll(files, n, migrationConfig) ==
  IF n > Len(files) THEN << >>
  ELSE <<assignConfig(NewMigrationData(files[n]), migrationConfig)>>
       \o MatchedDataKeepsAll(files, n + 1, migrationConfig)

\* src/main.go:523-548: the matched files, from the n-th on
RECURSIVE MatchedData(_, _, _)
MatchedData(files, n, migrationConfig) ==
  IF n > Len(files) THEN << >>
  ELSE LET data == assignConfig(NewMigrationData(files[n]), migrationConfig)
       IN  (IF data.matched THEN <<data>> ELSE << >>)
           \o MatchedData(files, n + 1, migrationConfig)

\* src/main.go:372, 514-549
ListMigrations ==
  /\ pc = "list"
  /\ migrations' = MatchedData(fileList, 1, config)
  /\ pc' = IF \E n \in 1..Len(migrations') : migrations'[n].panic
           THEN "panic" ELSE "confirm"
  /\ UNCHANGED <<flags, err, retentions, buffers, created, cursor, visited, history>>

\* src/main.go:381-383: the answer is no
ConfirmNo ==
  /\ pc = "confirm"
  /\ pc' = "exit"
  /\ UNCHANGED <<flags, err, retentions, buffers, created, migrations, cursor,
                 visited, history>>

\* src/main.go:381-387: the answer is yes
ConfirmYes ==
  /\ pc = "confirm"
  /\ pc' = "export"
  /\ k' = 1
  /\ UNCHANGED <<flags, err, retentions, buffers, created, migrations, archive,
                 point, visited, history>>

\* a failed whisper.Open checked like the errors of the output files
OpenFailsPanics ==
  /\ pc = "export"
  /\ k <= Len(migrations)
  /\ failed' = failed \cup {k}
  /\ pc' = "panic"
  /\ UNCHANGED <<flags, err, retentions, buffers, created, migrations, cursor,
                 visited, owed, nArchives, nPoints, undumped>>

\* export retrieving a buffer before it finds that the file does not open
OpenFailsAfterRetrieve ==
  /\ pc = "export"
  /\ k <= Len(migrations)
  /\ \E rate \in Rates :
       LET r == RetrieveMigrationBuffer(buffers, retentions, created, rate, gzipped)
       IN  /\ buffers' = r.buffers
           /\ retentions' = r.retentions
           /\ created' = r.created
  /\ k' = k + 1
  /\ failed' = failed \cup {k}
  /\ UNCHANGED <<pc, flags, err, migrations, archive, point, visited, owed,
                 nArchives, nPoints, undumped>>

\* src/main.go:388, 475-479: whisper.Open fails, the series is given up
OpenFails ==
  /\ pc = "export"
  /\ k <= Len(migrations)
  /\ k' = k + 1
  /\ failed' = failed \cup {k}
  /\ UNCHANGED <<pc, flags, err, retentions, buffers, created, migrations, archive,
                 point, visited, owed, nArchives, nPoints, undumped>>

\* src/main.go:388, 475-481: whisper.Open succeeds
OpenSucceeds ==
  /\ pc = "export"
  /\ k <= Len(migrations)
  /\ pc' = "archive"
  /\ UNCHANGED <<flags, err, retentions, buffers, created, migrations, cursor,
                 visited, history>>

\* export going to DumpArchive without the buffer of the archive
RetrieveLater ==
  /\ pc = "archive"
  /\ nArchives < MaxArchives
  /\ \E rate \in Rates : archive' = rate
  /\ nArchives' = nArchives + 1
  /\ pc' = "dump"
  /\ UNCHANGED <<flags, err, retentions, buffers, created, migrations, k, point,
                 visited, owed, nPoints, failed, undumped>>

\* src/main.go:481-483, 419-452: the next archive of the header has
\* SecondsPerPoint rate, and its buffer is retrieved
Retrieve ==
  /\ pc = "archive"
  /\ nArchives < MaxArchives
  /\ \E rate \in Rates :
       LET r == RetrieveMigrationBuffer(buffers, retentions, created, rate, gzipped)
       IN  /\ archive' = rate
           /\ buffers' = r.buffers
           /\ retentions' = r.retentions
           /\ created' = r.created
  /\ nArchives' = nArchives + 1
  /\ pc' = "dump"
  /\ UNCHANGED <<flags, err, migrations, k, point, visited, owed, nPoints, failed, undumped>>

\* src/main.go:436-437, 412-416: os.Create fails for the buffer of the next
\* archive, and check panics after the name was taken
CreateFails ==
  /\ pc = "archive"
  /\ nArchives < MaxArchives
  /\ \E rate \in Rates \ DOMAIN buffers :
       /\ archive' = rate
       /\ retentions' = RetentionPolicyName(rate, retentions).retentions
  /\ nArchives' = nArchives + 1
  /\ pc' = "panic"
  /\ UNCHANGED <<flags, err, buffers, created, migrations, k, point, visited, owed,
                 nPoints, failed, undumped>>

\* a failed DumpArchive ending the export of the series
DumpFailsReturns ==
  /\ pc = "dump"
  /\ archive' = 0
  /\ undumped' = undumped \cup {nArchives}
  /\ k' = k + 1
  /\ pc' = "export"
  /\ UNCHANGED <<flags, err, retentions, buffers, created, migrations, point,
                 visited, owed, nArchives, nPoints, failed>>

\* src/main.go:486-492: DumpArchive fails, the archive is skipped
DumpFails ==
  /\ pc = "dump"
  /\ archive' = 0
  /\ undumped' = undumped \cup {nArchives}
  /\ pc' = "archive"
  /\ UNCHANGED <<flags, err, retentions, buffers, created, migrations, k, point,
                 visited, owed, nArchives, nPoints, failed>>

\* src/main.go:486-493: DumpArchive returns the points of the archive
DumpSucceeds ==
  /\ pc = "dump"
  /\ pc' = "point"
  /\ UNCHANGED <<flags, err, retentions, buffers, created, migrations, cursor,
                 visited, history>>

\* src/main.go:493-500: the next point is skipped
SkipPoint ==
  /\ pc = "point"
  /\ nPoints < MaxPoints
  /\ \E p \in PointSet :
       /\ Skipped(p, exportZeros, from, until)
       /\ point' = p
       /\ owed' = [owed EXCEPT ![archive] = @ \o OwedLines(migrations[k], p, archive)]
  /\ nPoints' = nPoints + 1
  /\ UNCHANGED <<pc, flags, err, retentions, buffers, created, migrations, k, archive,
                 visited, nArchives, failed, undumped>>

\* src/main.go:502-505: the line of the next point is written to the
\* buffer that was retrieved for the archive
WritePoint ==
  /\ pc = "point"
  /\ nPoints < MaxPoints
  /\ \E p \in PointSet :
       /\ ~Skipped(p, exportZeros, from, until)
       /\ point' = p
       /\ buffers' = [buffers EXCEPT ![archive].out =
                        Append(@, lineprotocol(migrations[k], p, archive) \o <<"\n">>)]
       /\ owed' = [owed EXCEPT ![archive] = @ \o OwedLines(migrations[k], p, archive)]
  /\ nPoints' = nPoints + 1
  /\ UNCHANGED <<pc, flags, err, retentions, created, migrations, k, archive, visited,
                 nArchives, failed, undumped>>

\* a failed write whose error is not checked: the loop goes on
WriteFailsUnchecked ==
  /\ pc = "point"
  /\ nPoints < MaxPoints
  /\ \E p \in PointSet :
       /\ ~Skipped(p, exportZeros, from, until)
       /\ point' = p
  /\ err' = TRUE
  /\ UNCHANGED <<pc, flags, retentions, buffers, created, migrations, k, archive,
                 visited, history>>

\* src/main.go:504-505, 412-416: the write of the line of the next point
\* fails and check panics
WriteFails ==
  /\ pc = "point"
  /\ nPoints < MaxPoints
  /\ \E p \in PointSet :
       /\ ~Skipped(p, exportZeros, from, until)
       /\ point' = p
  /\ err' = TRUE
  /\ pc' = "panic"
  /\ UNCHANGED <<flags, retentions, buffers, created, migrations, k, archive,
                 visited, history>>

\* src/main.go:493, 507: the points are through, the next archive follows
NextArchive ==
  /\ pc = "point"
  /\ archive' = 0
  /\ point' = NoPoint
  /\ pc' = "archive"
  /\ UNCHANGED <<flags, err, retentions, buffers, created, migrations, k, visited,
                 history>>

\* the end of export flushing and closing the buffers, as when every series
\* had a file of its own
NextSeriesCloses ==
  /\ pc = "archive"
  /\ k' = k + 1
  /\ pc' = "export"
  /\ buffers' = [rate \in DOMAIN buffers |->
                   [buffers[rate] EXCEPT !.flushed = @ + 1, !.closed = @ + 1]]
  /\ UNCHANGED <<flags, err, retentions, created, migrations, archive,
                 point, visited, history>>

\* the end of export with main's loop staying at the same series
NextSeriesStays ==
  /\ pc = "archive"
  /\ pc' = "export"
  /\ UNCHANGED <<flags, err, retentions, buffers, created, migrations, cursor,
                 visited, history>>

\* src/main.go:507-510, 387-396: the archives are through, the file is
\* closed and main goes to the next series
NextSeries ==
  /\ pc = "archive"
  /\ k' = k + 1
  /\ pc' = "export"
  /\ UNCHANGED <<flags, err, retentions, buffers, created, migrations, archive,
                 point, visited, history>>

\* src/main.go:396-400: the series are through
StartClosing ==
  /\ pc = "export"
  /\ k > Len(migrations)
  /\ pc' = "close"
  /\ UNCHANGED <<flags, err, retentions, buffers, created, migrations, cursor,
                 visited, history>>

\* src/main.go:400-407: one round of the closing loop; a Go map is ranged
\* over in no particular order
CloseBuffer ==
  /\ pc = "close"
  /\ \E rate \in DOMAIN buffers \ visited :
       /\ buffers' = [buffers EXCEPT ![rate].flushed = @ + 1,
                                     ![rate].closed = @ + 1]
       /\ visited' = visited \cup {rate}
  /\ UNCHANGED <<pc, flags, err, retentions, created, migrations, cursor, history>>

\* src/main.go:400, 408: every buffer was closed, main returns
Finish ==
  /\ pc = "close"
  /\ DOMAIN buffers \subseteq visited
  /\ pc' = "done"
  /\ UNCHANGED <<flags, err, retentions, buffers, created, migrations, cursor,
                 visited, history>>

Next ==
  \/ ParseFlags \/ ListMigrations \/ ConfirmNo \/ ConfirmYes
  \/ OpenFails \/ OpenSucceeds \/ Retrieve \/ CreateFails
  \/ DumpFails \/ DumpSucceeds \/ SkipPoint \/ WritePoint \/ WriteFails
  \/ NextArchive \/ NextSeries \/ StartClosing \/ CloseBuffer \/ Finish

Spec == Init /\ [][Next]_vars

\* ----------------------------------- assignConfig on generated rule sets
\* The configs and the whisper file ListMigrations is applied to: every
\* generated rule alone, and the lists of up to MaxRules of the ListRules.
MatchConfigs ==
  {<<r>> : r \in Rules \cup {StatsRule} \cup ParenRules}
  \cup SeqsUpTo(ListRules, 0, MaxRules)

InitMatch ==
  /\ pc = "list"
  /\ retentionsStr = << >>
  /\ exportZeros = FALSE
  /\ gzipped = FALSE
  /\ from \in FromSet
  /\ until \in UntilSet
  /\ config \in MatchConfigs
  /\ fileList \in {<<f>> : f \in WspFiles}
  /\ retentions = <<<< >>>>
  /\ buffers = << >>
  /\ created = << >>
  /\ migrations = << >>
  /\ k = 0 /\ archive = 0 /\ point = NoPoint
  /\ err = FALSE
  /\ visited = {}
  /\ owed = [r \in Rates |-> << >>]
  /\ nArchives = 0 /\ nPoints = 0
  /\ failed = {}
  /\ undumped = {}

NextMatch == ListMigrations

SpecMatch == InitMatch /\ [][NextMatch]_vars
\* ---------------------------------------------------------------- claims
\* the text a bucket file starts with
IsHeader(str) == Len(str) > 0 /\ str[1] = "# DML\n# CONTEXT-DATABASE: "

\* C1: the stream of every retention key holds the header exactly once, as
\* its first content, followed by exactly the lines of the qualifying
\* samples that were dumped for that key, in the order the series were
\* processed; a key without a stream is owed no line.
BucketHeaderInvariant ==
  \A rate \in Rates :
    IF rate \in DOMAIN buffers
    THEN LET out == buffers[rate].out
         IN  /\ Len(out) >= 1
             /\ IsHeader(out[1])
             /\ \A n \in 2..Len(out) : ~IsHeader(out[n])
             /\ Tail(out) = owed[rate]
    ELSE owed[rate] = << >>

\* C1 witness: a finished run in which two series, exported one after the
\* other, both left a line in the stream of one key
TwoSeriesShareBucket ==
  /\ pc = "done"
  /\ \E rate \in DOMAIN buffers :
       /\ Len(buffers[rate].out) = 3
       /\ buffers[rate].out[2][1] # buffers[rate].out[3][1]
\* the names the user wrote in -retentions, none when the option is empty
UserNames ==
  CHOOSE names \in SeqsUpTo(Names, 0, MaxNames) :
    JoinWith(names, ",") = retentionsStr

\* the position of a buffer in the order the buffers were created
Discovery(rate) == CHOOSE n \in 1..Len(created) : created[n] = buffers[rate].File

\* the buffer of rate carries the name: in its path and in its header
NamedAs(rate, name) ==
  /\ buffers[rate].File = BufferPath(rate, name, gzipped)
  /\ buffers[rate].out[1] = LineProtocolContext(Database, name)

\* C2: the i-th retention key discovered gets the i-th name the user
\* supplied, and every key discovered after the names ran out gets the
\* decimal string of its key.
NamesInDiscoveryOrder ==
  \A rate \in DOMAIN buffers :
    NamedAs(rate, IF Discovery(rate) <= Len(UserNames)
                  THEN UserNames[Discovery(rate)]
                  ELSE FormatInt(rate))

\* C3: without -retentions every bucket is named with the decimal string of
\* its key.
DefaultNamesAreDecimal ==
  retentionsStr = << >> =>
    \A rate \in DOMAIN buffers : NamedAs(rate, FormatInt(rate))

\* C4: a request for a key that has a buffer changes nothing: no file is
\* created, no header written, no name taken; and the file and the header
\* of a buffer never change once it exists.
RetrieveIsIdempotent ==
  [][/\ (pc = "archive" /\ pc' = "dump" /\ archive' \in DOMAIN buffers)
          => /\ buffers' = buffers
             /\ retentions' = retentions
             /\ created' = created
     /\ \A rate \in DOMAIN buffers :
          /\ rate \in DOMAIN buffers'
          /\ buffers'[rate].File = buffers[rate].File
          /\ buffers'[rate].out[1] = buffers[rate].out[1]]_vars

\* C4 witness: a second archive was routed to the one buffer there is, while
\* a name is still waiting
SecondRequestServed ==
  /\ pc = "dump"
  /\ nArchives = 2
  /\ Len(created) = 1
  /\ Len(retentions) > 0
\* a step of export's inner loop that takes the next point of the archive
TakesPoint == pc = "point" /\ nPoints' = nPoints + 1

\* the strings written to the buffer of the archive in a step
Written == SubSeq(buffers'[archive].out, Len(buffers[archive].out) + 1,
                  Len(buffers'[archive].out))

FieldText(line) ==
  LET eq == Max({n \in 1..Len(line) : line[n] = "="})
      sp == Min({n \in eq..Len(line) : line[n] = " "})
  IN  Sub(line, eq + 1, sp - 1)

\* the integer a decimal text denotes
RECURSIVE ParseNat(_)
ParseNat(text) ==
  IF text = << >> THEN 0
  ELSE 10 * ParseNat(Sub(text, 1, Len(text) - 1))
       + (CHOOSE d \in 0..9 : Digit(d) = text[Len(text)])

ParseInt(text) ==
  IF text # << >> /\ text[1] = "-" THEN -ParseNat(Tail(text)) ELSE ParseNat(text)

\* the least integer that is not below num/ValueDen
Ceiling(num) ==
  LET Abs(x) == IF x < 0 THEN -x ELSE x
  IN  CHOOSE c \in -Abs(num)..Abs(num) :
        c * ValueDen >= num /\ (c - 1) * ValueDen < num

\* C6 as amended: rescaling is not switchable; the field value of every
\* exported sample of a sub-archive with secondsPerPoint = k is
\* ceil(value * k).
AlwaysRescaled ==
  [][(TakesPoint /\ Len(Written) = 1) =>
       ParseInt(FieldText(Written[1])) = Ceiling(point'.Value * archive)]_vars

\* C6 as stated: whatever the rescaling switch is set to, the field value is
\* ceil(value * k) when it is on and the value unchanged when it is off.
RescalingSwitchable ==
  [][(TakesPoint /\ Len(Written) = 1) =>
       \A scaleByInterval \in BOOLEAN :
         ParseInt(FieldText(Written[1])) * ValueDen =
           IF scaleByInterval THEN Ceiling(point'.Value * archive) * ValueDen
           ELSE point'.Value]_vars

\* C6 witness: a sample whose product with secondsPerPoint is not a whole
\* number was written
FractionWritten ==
  /\ pc = "point"
  /\ ~Skipped(point, exportZeros, from, until)
  /\ (point.Value * archive) % ValueDen # 0
  /\ Len(buffers[archive].out) > 1

\* C7: every buffer is flushed and closed at most once and, when main
\* returns, exactly once; a buffer is closed only after the last series was
\* exported; nothing is written to a closed buffer.
ClosedOnceAtTheEnd ==
  /\ [](\A rate \in DOMAIN buffers :
          /\ buffers[rate].closed <= 1
          /\ buffers[rate].flushed = buffers[rate].closed
          /\ pc = "done" => buffers[rate].closed = 1
          /\ buffers[rate].closed > 0
               => pc \in {"close", "done"} /\ k > Len(migrations))
  /\ [][\A rate \in DOMAIN buffers :
          buffers[rate].closed > 0 => buffers'[rate].out = buffers[rate].out]_vars

\* C7 witness: main returned with two buffers, each closed once
TwoBuffersClosed ==
  /\ pc = "done"
  /\ Cardinality(DOMAIN buffers) = 2
  /\ \A rate \in DOMAIN buffers : buffers[rate].closed = 1
\* a wildcard token as the rules mean it: two opening braces, any blanks, a
\* name without blanks and braces, any blanks, two closing braces. The
\* result is [ok, name, end], the token being s[i..end-1].
RECURSIVE NameRun(_, _)
NameRun(s, i) ==
  IF i <= Len(s) /\ ~IsSpace(s[i]) /\ s[i] \notin {"{", "}"}
  THEN 1 + NameRun(s, i + 1) ELSE 0

TokenAt(s, i) ==
  LET a == i + 2 + SpaceRun(s, i + 2)
      L == NameRun(s, a)
      e == a + L + SpaceRun(s, a + L)
  IN  IF HasAt(s, i, <<"{", "{">>) /\ L >= 1 /\ HasAt(s, e, <<"}", "}">>)
      THEN [ok |-> TRUE, name |-> Sub(s, a, a + L - 1), end |-> e + 2]
      ELSE [ok |-> FALSE, name |-> << >>, end |-> 0]

\* the names of the tokens of s, left to right
RECURSIVE TokenNames(_, _)
TokenNames(s, i) ==
  IF i > Len(s) THEN << >>
  ELSE IF TokenAt(s, i).ok
  THEN <<TokenAt(s, i).name>> \o TokenNames(s, TokenAt(s, i).end)
  ELSE TokenNames(s, i + 1)

\* s with every token written with one blank on each side of its name
RECURSIVE Spaced(_, _)
Spaced(s, i) ==
  IF i > Len(s) THEN << >>
  ELSE IF TokenAt(s, i).ok
  THEN Tok(TokenAt(s, i).name, 1) \o Spaced(s, TokenAt(s, i).end)
  ELSE <<s[i]>> \o Spaced(s, i + 1)

SpacedRule(rule) ==
  [Pattern |-> Spaced(rule.Pattern, 1),
   Measurement |-> Spaced(rule.Measurement, 1),
   Field |-> Spaced(rule.Field, 1),
   Tags |-> [n \in 1..Len(rule.Tags) |->
               [Tagkey |-> Spaced(rule.Tags[n].Tagkey, 1),
                Tagvalue |-> Spaced(rule.Tags[n].Tagvalue, 1)]]]

\* resolved data with the tokens that were left in it written that way too
SpacedData(data) ==
  [data EXCEPT !.measurement = Spaced(@, 1), !.field = Spaced(@, 1),
               !.tags = Spaced(@, 1)]

SpacedAll(datas) == [n \in 1..Len(datas) |-> SpacedData(datas[n])]

ScenarioB ==
  [Pattern |-> ScenarioPattern(0),
   Measurement |-> Tok(<<"x">>, 0) \o <<"_">> \o Tok(<<"y">>, 0),
   Field |-> << >>, Tags |-> << >>]

\* C8: blanks around a wildcard name are insignificant: the rules resolve a
\* file as the same rules written with one blank around every name do (up
\* to the blanks of the tokens of other names, which stay in the text); in
\* particular pattern a.{{x}}.b.{{y}} with measurement {{x}}_{{y}} resolves
\* a/10/b/20.wsp to the measurement 10_20.
WhitespaceInsignificant ==
  pc = "confirm" =>
    /\ SpacedAll(migrations) =
         SpacedAll(MatchedData(fileList, 1,
                               [n \in 1..Len(config) |-> SpacedRule(config[n])]))
    /\ (/\ config = <<ScenarioB>>
        /\ Normalize(fileList[1]) = <<"a", ".", "1", "0", ".", "b", ".", "2", "0">>)
         => /\ Len(migrations) = 1
            /\ migrations[1].measurement = <<"1", "0", "_", "2", "0">>

\* the end positions of the matches of the compiled expression re, from its
\* n-th item on, that start at position i of s
RECURSIVE Ends(_, _, _, _)
Ends(re, n, s, i) ==
  IF n > Len(re) THEN {i}
  ELSE IF re[n].paren # "" THEN Ends(re, n + 1, s, i)
  ELSE IF re[n].wild
  THEN UNION {Ends(re, n + 1, s, i + len) : len \in 1..NonDotRun(s, i)}
  ELSE IF i <= Len(s) /\ s[i] = re[n].c THEN Ends(re, n + 1, s, i + 1)
  ELSE {}

\* the compiled expression matches somewhere in s
MatchesAnywhere(re, s) == \E i \in 1..(Len(s) + 1) : Ends(re, 1, s, i) # {}

\* the rules of the config whose pattern matches somewhere in the path of
\* the file
MatchingRules ==
  {n \in 1..Len(config) :
     MatchesAnywhere(CompilePattern(config[n].Pattern), Normalize(fileList[1]))}

\* C10: the rule with the smallest index whose pattern matches somewhere in
\* the path is selected, its templates and its captures are used, and the
\* file is left unmatched only when no rule matches.
FirstMatchWins ==
  pc = "confirm" =>
    IF MatchingRules = {} THEN migrations = << >>
    ELSE /\ Len(migrations) = 1
         /\ migrations = MatchedData(fileList, 1, <<config[Min(MatchingRules)]>>)

\* C10 witness: both rules of a config match the file, and the second alone
\* resolves it differently
SecondRuleMatchesToo ==
  /\ pc = "confirm"
  /\ MatchingRules = {1, 2}
  /\ migrations # MatchedData(fileList, 1, <<config[2]>>)
\* text with every token whose name is in the domain of pick replaced by
\* the value of the wildcard pick gives for that name; other text is kept
RECURSIVE SubstTokens(_, _, _, _)
SubstTokens(text, i, pick, values) ==
  IF i > Len(text) THEN << >>
  ELSE LET t == TokenAt(text, i)
       IN  IF t.ok /\ t.name \in DOMAIN pick
           THEN values[pick[t.name]] \o SubstTokens(text, t.end, pick, values)
           ELSE <<text[i]>> \o SubstTokens(text, i + 1, pick, values)

\* the ways to pick, for every name, one of the wildcards of that name
Picks(names) ==
  LET S == {names[n] : n \in 1..Len(names)}
  IN  {f \in [S -> 1..Len(names)] : \A name \in S : names[f[name]] = name}

\* C9: when a path matches rule R with captures c1..cn, the resolved
\* measurement, field and tags hold no token of a wildcard of R's pattern
\* any more, and every token of the i-th wildcard was replaced by ci.
ResolutionComplete ==
  (pc = "confirm" /\ migrations # << >>) =>
    LET path  == Normalize(fileList[1])
        R     == config[MatchRules(config, 1, path).tagConfig]
        names == TokenNames(R.Pattern, 1)
        found == FindFirstSubmatch(CompilePattern(Spaced(R.Pattern, 1)), path, 1)
        m0    == IF R.Measurement = << >> THEN LastPart(path) ELSE R.Measurement
        f0    == IF R.Field = << >> THEN <<"v", "a", "l", "u", "e">> ELSE R.Field
        t0    == TagString(R.Tags, 1)
        data  == migrations[1]
    IN  (found # << >> /\ Len(found[1]) = Len(names) + 1) =>
          /\ \A n \in 1..Len(names) :
               \A text \in {data.measurement, data.field, data.tags} :
                 \A q \in 1..Len(TokenNames(text, 1)) :
                   TokenNames(text, 1)[q] # names[n]
          /\ \A pick \in Picks(names) :
               /\ data.measurement = SubstTokens(m0, 1, pick, Tail(found[1]))
               /\ data.field = SubstTokens(f0, 1, pick, Tail(found[1]))
               /\ data.tags = SubstTokens(t0, 1, pick, Tail(found[1]))
\* the text after the last '.' of a path
LastSegment(path) ==
  Sub(path, Max({0} \cup {n \in 1..Len(path) : path[n] = "."}) + 1, Len(path))

\* C11: when the measurement of the matched rule is empty the resolved
\* measurement is the last '.'-delimited segment of the normalized path, and
\* when its field is empty the resolved field is "value"; pattern
\* stats.{{host}}.load without measurement, field and tags resolves
\* stats.server1.load to measurement load, field value and no tags.
DefaultsForEmptyTemplates ==
  (pc = "confirm" /\ migrations # << >>) =>
    LET path == Normalize(fileList[1])
        R    == config[Min(MatchingRules)]
        data == migrations[1]
    IN  /\ R.Measurement = << >> => data.measurement = LastSegment(path)
        /\ R.Field = << >> => data.field = <<"v", "a", "l", "u", "e">>
        /\ (config = <<StatsRule>> /\ Sub(path, 1, 5) = <<"s", "t", "a", "t", "s">>)
             => /\ data.measurement = <<"l", "o", "a", "d">>
                /\ data.field = <<"v", "a", "l", "u", "e">>
                /\ data.tags = << >>
\* the text is a decimal integer literal: an optional sign, then digits
IsIntegerLiteral(text) ==
  LET digits == IF text # << >> /\ text[1] = "-" THEN Tail(text) ELSE text
  IN  /\ digits # << >>
      /\ \A n \in 1..Len(digits) : \E d \in 0..9 : digits[n] = Digit(d)

\* C12: every exported sample line carries its field value as an integer
\* literal followed by the suffix i, then a blank and the timestamp in
\* seconds.
IntegerSuffixWritten ==
  [][(TakesPoint /\ Len(Written) = 1) =>
       LET line  == Written[1]
           value == FieldText(line)
           eq    == Max({n \in 1..Len(line) : line[n] = "="})
       IN  /\ Len(value) >= 2
           /\ value[Len(value)] = "i"
           /\ IsIntegerLiteral(Sub(value, 1, Len(value) - 1))
           /\ Sub(line, eq + Len(value) + 1, Len(line))
                = <<" ">> \o FormatInt(point'.Timestamp) \o <<"\n">>]_vars
\* the series main's loop has not been through yet, the current one first
Remaining == Sub(migrations, k, Len(migrations))

\* a step in which the whisper file of the current series fails to open
OpenFailed == failed' # failed

\* C13: a failed open is not fatal: the series is given up without a line
\* being written, main stays in its loop, and what is left to export, and
\* everything the export of the later series reads, is as when the series
\* had not been in the list.
OpenFailureIsNotFatal ==
  [][OpenFailed =>
       /\ pc' = "export"
       /\ \A rate \in DOMAIN buffers : buffers'[rate].out = buffers[rate].out
       /\ owed' = owed
       /\ Remaining # << >> /\ Remaining' = Tail(Remaining)
       /\ UNCHANGED <<flags, err, retentions, nArchives, nPoints>>]_vars

\* C13 witness: the run is over, the file of the first series could not be
\* opened, and a line of the second series was written
LaterSeriesExported ==
  /\ pc = "done"
  /\ failed = {1}
  /\ Len(migrations) = 2
  /\ \E rate \in DOMAIN buffers :
       /\ Len(buffers[rate].out) >= 2
       /\ \E p \in PointSet :
            buffers[rate].out[2] = lineprotocol(migrations[2], p, rate) \o <<"\n">>
\* a step in which DumpArchive fails for the archive export is at
DumpFailed == undumped' # undumped

\* C14: a failed decode is local to its sub-archive: no line of it is
\* written, the lines written before are kept, and export goes on with the
\* next sub-archive of the same series, the later series still in the list.
DecodeFailureIsLocal ==
  [][DumpFailed =>
       /\ buffers' = buffers
       /\ owed' = owed /\ nPoints' = nPoints
       /\ pc' = "archive"
       /\ k' = k /\ migrations' = migrations
       /\ UNCHANGED <<flags, err, retentions>>]_vars

\* C14 witness: the first sub-archive of the first series could not be
\* decoded, and a line of its second sub-archive was written
NextArchiveExported ==
  /\ pc = "point"
  /\ k = 1
  /\ undumped = {1}
  /\ nArchives = 2
  /\ nPoints >= 1
  /\ Len(buffers[archive].out) >= 2
  /\ buffers[archive].out[Len(buffers[archive].out)]
       = lineprotocol(migrations[1], point, archive) \o <<"\n">>
\* C15: a failed write of a sample line is fatal and immediate: the run is
\* aborted by the panic of check, nothing is processed after the failed
\* write, and main never returns normally.
WriteFailureIsFatal ==
  /\ [](err => pc = "panic")
  /\ [][~err]_vars

\* C15 witness: a write failed after another line had been written, while a
\* later series was still to be exported
WriteFailedMidRun ==
  /\ err
  /\ k < Len(migrations)
  /\ nPoints = 1
  /\ Len(buffers[archive].out) = 2
  /\ ~Skipped(point, exportZeros, from, until)
\* C16 as stated: a bucket exists for a key only if a sample was routed to
\* that key; a sub-archive without a qualifying sample, or whose decode
\* fails, creates no bucket and takes no name.
BucketOnFirstSample ==
  \A rate \in DOMAIN buffers : owed[rate] # << >>

\* C16 as amended: a bucket is created on the first sub-archive routed to
\* its key, before the sub-archive is decoded: the sub-archive export is at
\* always has its bucket, there are never more buckets than sub-archives
\* reached, and a bucket appears only in the step that reaches a sub-archive
\* of a new key, which creates one file and takes the first waiting name,
\* whether or not a sample follows.
BucketOnFirstArchive ==
  /\ [](/\ pc \in {"dump", "point"} => archive \in DOMAIN buffers
        /\ Cardinality(DOMAIN buffers) <= nArchives)
  /\ [][DOMAIN buffers' # DOMAIN buffers =>
          /\ pc = "archive" /\ pc' = "dump"
          /\ nArchives' = nArchives + 1
          /\ archive' \notin DOMAIN buffers
          /\ DOMAIN buffers' = DOMAIN buffers \cup {archive'}
          /\ Len(created') = Len(created) + 1
          /\ retentions # << >> => retentions' = Tail(retentions)]_vars

\* C16 witness: the run is over, its only sub-archive could not be decoded,
\* and the bucket of its key exists, named with the first name of the user
EmptyBucketCreated ==
  /\ pc = "done"
  /\ nArchives = 1
  /\ undumped = {1}
  /\ Cardinality(DOMAIN buffers) = 1
  /\ \A rate \in DOMAIN buffers :
       /\ Len(buffers[rate].out) = 1
       /\ owed[rate] = << >>
       /\ Len(UserNames) = 2
       /\ NamedAs(rate, UserNames[1])
       /\ retentions = Tail(UserNames)
\* the pattern of some rule of the config matches somewhere in the
\* normalized path of the file
Matches(wspFile) ==
  \E n \in 1..Len(config) :
    MatchesAnywhere(CompilePattern(config[n].Pattern), Normalize(wspFile))

\* C17: a series whose path matches no rule is never exported: the list of
\* series to drain, once made, holds exactly the files that match, in their
\* order, and never changes; the file export has open is one of the list;
\* every line in a bucket is a line of a series of the list; and when the
\* list is empty no bucket is created, no name is taken and no archive is
\* read.
UnmatchedNeverExported ==
  /\ [](pc = "confirm" =>
          [n \in 1..Len(migrations) |-> migrations[n].wspFile]
            = SelectSeq(fileList, Matches))
  /\ [][pc \notin {"main", "list"} =>
          UNCHANGED <<migrations, fileList, config>>]_vars
  /\ [](pc \notin {"main", "list"} =>
          /\ pc \in {"archive", "dump", "point"} => k \in 1..Len(migrations)
          /\ failed \subseteq 1..Len(migrations)
          /\ \A rate \in DOMAIN buffers :
               \A n \in 2..Len(buffers[rate].out) :
                 \E m \in 1..Len(migrations), p \in PointSet :
                   buffers[rate].out[n]
                     = lineprotocol(migrations[m], p, rate) \o <<"\n">>
          /\ migrations = << >>
               => /\ buffers = << >> /\ created = << >>
                  /\ retentions = Split(retentionsStr, ",")
                  /\ nArchives = 0 /\ failed = {})

\* C17 witness: the run is over; the first file found matched a rule and
\* left a line in a bucket, the second matched none
UnmatchedSkipped ==
  /\ pc = "done"
  /\ Len(fileList) = 2
  /\ Matches(fileList[1]) /\ ~Matches(fileList[2])
  /\ Len(migrations) = 1
  /\ \E rate \in DOMAIN buffers : Len(buffers[rate].out) >= 2
\* text with its n-th, (n+1)-th, ... token replaced by the n-th, (n+1)-th,
\* ... of the values; a token without a value is kept
RECURSIVE FillTokens(_, _, _, _)
FillTokens(text, i, values, n) ==
  IF i > Len(text) THEN << >>
  ELSE LET t == TokenAt(text, i)
       IN  IF t.ok /\ n <= Len(values)
           THEN values[n] \o FillTokens(text, t.end, values, n + 1)
           ELSE <<text[i]>> \o FillTokens(text, i + 1, values, n)

\* t occurs somewhere in s
IsSubstring(t, s) == \E i \in 1..(Len(s) + 1) : HasAt(s, i, t)

\* what the program found for the file: the rule, the match and the
\* wildcards of the rule's pattern
Found == MatchRules(config, 1, Normalize(fileList[1]))

\* C18: the expression compiled from a pattern has one capturing group per
\* wildcard token: for a matching path there are as many captured values as
\* wildcard tokens in the pattern and as wildcard names extracted from it,
\* every capture is non-empty and free of '.', and the i-th capture is what
\* the path has at the place of the i-th token: the pattern with its tokens
\* replaced by the captures, left to right, is the part of the path that
\* was matched.
OneGroupPerWildcard ==
  (pc = "confirm" /\ migrations # << >>) =>
    LET Pattern  == config[Found.tagConfig].Pattern
        captures == Tail(Found.matched)
    IN  /\ Len(captures) = Len(TokenNames(Pattern, 1))
        /\ Len(captures) = Len(Found.wildcards)
        /\ \A i \in 1..Len(captures) :
             /\ captures[i] # << >>
             /\ \A n \in 1..Len(captures[i]) : captures[i][n] # "."
        /\ FillTokens(Pattern, 1, captures, 1) = Found.matched[1]
        /\ IsSubstring(Found.matched[1], Normalize(fileList[1]))
\* the file found n-th is in the list of series to drain
IsMatchedFile(n) ==
  \E j \in 1..Len(migrations) : migrations[j].wspFile = fileList[n]

\* its place in that list: the matched files keep the order they were found
Place(n) == Cardinality({i \in 1..n : IsMatchedFile(i)})

\* the state of the series of the file found n-th
Status(n) ==
  IF pc \in {"main", "list"} THEN "Unresolved"
  ELSE IF ~IsMatchedFile(n) THEN "Unmatched"
  ELSE IF Place(n) >= k THEN "Matched"
  ELSE IF Place(n) \in failed THEN "ExportFailed"
  ELSE "Exported"

Terminal == {"Unmatched", "Exported", "ExportFailed"}

AllTerminal == \A n \in 1..Len(fileList) : Status(n) \in Terminal

\* a step of main is possible: it has not returned, exited or panicked
Running == pc \notin {"done", "exit", "panic"}

\* how far main is from its end: the series, archives and points still to
\* come, the buffers still to close, and the place in the code
Variant ==
  1000 * (MaxSeries + 1 - k) + 100 * (MaxArchives - nArchives)
  + 20 * (MaxPoints - nPoints) + 4 * Cardinality(Rates \ visited)
  + CASE pc = "main" -> 8 [] pc = "list" -> 7 [] pc = "confirm" -> 6
      [] pc = "export" -> 5 [] pc = "dump" -> 4 [] pc = "point" -> 3
      [] pc = "archive" -> 2 [] pc = "close" -> 1 [] OTHER -> 0

\* the states of a series change only along the edges of its life cycle,
\* and the step that makes a series ExportFailed leaves main in its loop
LifeCycleEdges ==
  /\ [][\A n \in 1..Len(fileList) :
          /\ \/ Status(n)' = Status(n)
             \/ <<Status(n), Status(n)'>> \in
                  { <<"Unresolved", "Unmatched">>, <<"Unresolved", "Matched">>,
                    <<"Matched", "Exported">>, <<"Matched", "ExportFailed">> }
          /\ (Status(n) = "Matched" /\ Status(n)' = "ExportFailed")
               => pc' = "export"]_vars
  /\ [](failed \subseteq 1..(k - 1))

\* every run ends: each step brings main nearer to its end, and main stops
\* only where it returns, exits or panics (at "main" and at "list" the
\* step depends on nothing but pc)
RunEnds ==
  /\ [][Variant' < Variant]_vars
  /\ [](Variant >= 0)
  /\ [](pc \notin {"main", "list"} => (Running <=> ENABLED Next))

\* C19 as stated: the life cycle, and every series reaches a terminal
\* state unless a write fails: the run ends, and where it ends without a
\* failed write every series is in a terminal state.
SeriesLifeCycle ==
  /\ LifeCycleEdges
  /\ RunEnds
  /\ []((~Running /\ ~err) => AllTerminal)

\* C19 as amended: the life cycle, and every series reaches a terminal
\* state unless the run ends early: the run ends, and where it ends by the
\* return of main, and not by the exit after a declined confirmation or by
\* the panic of a failed write or file creation, every series is in a
\* terminal state.
SeriesLifeCycleUnlessAborted ==
  /\ LifeCycleEdges
  /\ RunEnds
  /\ []((~Running /\ pc \notin {"exit", "panic"}) => AllTerminal)

\* C19 witness: main returned after the first series could not be opened
\* and the second was exported
FailedThenExported ==
  /\ pc = "done"
  /\ Len(fileList) = 2
  /\ Status(1) = "ExportFailed"
  /\ Status(2) = "Exported"
  /\ nPoints > 0
\* C20: an export whose whisper file fails to open leaves the buffers as
\* they are: the same keys, each with the same file, header and content,
\* no file created, and the same names waiting.
OpenFailureLeavesBuffers ==
  [][OpenFailed =>
       /\ DOMAIN buffers' = DOMAIN buffers
       /\ \A rate \in DOMAIN buffers : buffers'[rate] = buffers[rate]
       /\ created' = created
       /\ retentions' = retentions]_vars

\* C20 witness: the file of the second series failed to open after the
\* first series had its buffer, with a name still waiting
OpenFailedWithBuffers ==
  /\ pc = "export"
  /\ k = 3
  /\ failed = {2}
  /\ DOMAIN buffers # {}
  /\ Len(created) = 1
  /\ Len(retentions) = 1
\* keys and names that are near to each other as texts: keys that are
\* prefixes of one another, names that are decimal keys or hold a '-'
NearKeys == {1, 6, 10, 60, 600}
NearNames ==
  Names \cup {FormatInt(rate) : rate \in NearKeys}
        \cup {<<"0", "-", "a">>, <<"-", "6", "0">>, << >>}

\* C21: two buckets with different keys never have the same output path,
\* whatever names they were given: the same name twice, or a name that is
\* the decimal string of another key; so every file is created once. The
\* path made for a key and a name is different from the path made for any
\* other key, with any name.
DistinctKeysDistinctPaths ==
  /\ \A r1, r2 \in DOMAIN buffers :
       r1 # r2 => buffers[r1].File # buffers[r2].File
  /\ \A i, j \in 1..Len(created) : i # j => created[i] # created[j]
  /\ pc = "main" =>
       \A r1, r2 \in NearKeys : \A n1, n2 \in NearNames :
         r1 # r2 => BufferPath(r1, n1, gzipped) # BufferPath(r2, n2, gzipped)

\* C21 witness: two buckets carry the same retention name, which is also
\* the decimal string of the key of one of them
SameNameTwoBuckets ==
  /\ Cardinality(DOMAIN buffers) = 2
  /\ \A rate \in DOMAIN buffers :
       buffers[rate].out[1] = LineProtocolContext(Database, FormatInt(60))
  /\ Len(UserNames) >= 1
\* C22: the substitution loop never indexes outside the wildcards: for
\* every pattern, also one with parentheses, and every path it matches, the
\* match has at most as many groups as the pattern has wildcards, and
\* ListMigrations ends without a panic.
SubstitutionInBounds ==
  /\ pc = "list" =>
       (Found.filenameMatched => Len(Found.matched) - 1 <= Len(Found.wildcards))
  /\ pc # "panic"
  /\ \A n \in 1..Len(migrations) : ~migrations[n].panic
====
